---- MODULE Spec2Model ----
\* The Nanit Home Assistant integration: the polling coordinator
\* (custom_components/nanit/__init__.py), the calls it makes to the vendor
\* client, and what the host's DataUpdateCoordinator does with its results.
EXTENDS Integers, Sequences, FiniteSets, TLC

VARIABLES
    data,         \* NanitCoordinator.data: <<>> is None, <<d>> is the NanitData d
    task,         \* one frame per invocation of _async_update_data
    phase,        \* the config entry in the host: "setup", "loaded" or "reauth"
    flow,         \* the config flows in progress: flow.user and flow.reauth
    client,       \* NanitClient._access_token / _refresh_token
    entry_data,   \* ConfigEntry.data
    last,         \* history: what the invocation that ended last did
    simple,       \* the coordinator of src/__init__.py, its entry and its frame
    cameras       \* the camera platform: <<>> before async_setup_entry of
                  \* camera.py, then <<c>>, c[baby_uid] the NanitCamera entity

vars == <<data, task, phase, flow, client, entry_data, last, simple, cameras>>

\* ---------------------------------------------------------------- bounds

\* Number of frames, i.e. of invocations of _async_update_data that can be
\* suspended at the same time.
MaxTasks == 2

Tasks == 1..MaxTasks

\* Number of calls of async_camera_image of one camera that can be suspended
\* at the same time.
MaxRequests == 2

Requests == 1..MaxRequests

\* ------------------------------------------------------------ python values

\* Python's None where the other values are strings.
None == "None"

\* dict.get(key, default)
Get(d, key, default) == IF key \in DOMAIN d THEN d[key] ELSE default

\* {}
EmptyDict == [k \in {} |-> None]

\* d[key] = value
DictSet(d, key, value) ==
    [k \in (DOMAIN d) \cup {key} |-> IF k = key THEN value ELSE d[k]]

\* --------------------------------------------------- what the API answers

BabyUids == {"baby-1", "baby-2"}

\* Two entries of the "babies" list of GET /babies; the second one has no
\* name, no hardware and no mode.
BabyDict(uid) ==
    IF uid = "baby-1"
    THEN [uid |-> "baby-1", name |-> "Ada",
          camera |-> [uid |-> "cam-1", hardware |-> "gen2", mode |-> "STAND"]]
    ELSE [uid |-> "baby-2", camera |-> [uid |-> "cam-2"]]

BabiesResponses ==
    { [babies |-> <<>>],
      [babies |-> <<BabyDict("baby-1")>>],
      [babies |-> <<BabyDict("baby-2")>>],
      [babies |-> <<BabyDict("baby-1"), BabyDict("baby-2")>>] }

\* Latest events; the second one carries no time.
EventResponses ==
    { [key |-> "FELL_ASLEEP", time |-> 100],
      [key |-> "WOKE_UP"] }

\* Connection status of a camera; the second camera's answer has no
\* "connected".
ConnectionResponses(camera_uid) ==
    IF camera_uid = "cam-1"
    THEN { [connected |-> TRUE] }
    ELSE { [status |-> "unknown"] }

\* stats/latest; the last answer has no media URLs.
StatsResponses ==
    { [latest |-> [media_urls |-> [thumbnail |-> "url-a"]]],
      [latest |-> [media_urls |-> [thumbnail |-> "url-b"]]],
      [latest |-> [updated_at |-> 1]] }

\* What a request of _update_babies can raise. The async_timeout scope raises
\* TimeoutError at the call the task is suspended on; ClientError is aiohttp's.
FetchErrors ==
    {"NanitUnauthorizedError", "NanitAPIError", "ClientError", "TimeoutError"}

\* What refresh_session can raise; it runs outside the timeout scope.
RefreshErrors == {"NanitUnauthorizedError", "NanitAPIError", "ClientError"}

\* What refresh_session raises when the refresh token itself is rejected.
RefreshRejected == "NanitUnauthorizedError"

\* nanit_client is not part of the sources at hand: whether
\* NanitUnauthorizedError derives from NanitAPIError is either way.
UnauthorizedIsAPIError == BOOLEAN

InitialTokens == [access_token |-> "at0", refresh_token |-> "rt0"]

\* The pairs refresh_session can return.
RefreshedTokens == { [access_token |-> "at1", refresh_token |-> "rt1"] }

\* ------------------------------------------------------------- dataclasses

Camera(camera_uid, hardware, mode) ==
    [camera_uid |-> camera_uid, hardware |-> hardware, mode |-> mode]

LatestEvent(key, time) == [key |-> key, time |-> time]

ConnectionStatus(connected) == [connected |-> connected]

DeviceInfo(baby, camera) ==
    [identifiers |-> baby.uid,
     manufacturer |-> "Nanit",
     name |-> Get(baby, "name", baby.uid),
     model |-> camera.hardware,
     serial_number |-> camera.camera_uid,
     hw_version |-> Get(baby.camera, "hardware", None),
     sw_version |-> Get(baby.camera, "version", None)]

BabyMeta(baby_uid, camera, name, latest_event, connection_status, device_info, thumbnail_url) ==
    [baby_uid |-> baby_uid, camera |-> camera, name |-> name,
     latest_event |-> latest_event, connection_status |-> connection_status,
     device_info |-> device_info, thumbnail_url |-> thumbnail_url]

NanitData(babies) == [babies |-> babies]

\* ------------------------------------------- _update_babies: pure parts

\* previous_baby: <<>> is None, <<m>> is the BabyMeta m.
PreviousBaby(d, baby_uid) ==
    IF d # <<>> /\ baby_uid \in DOMAIN d[1].babies
    THEN <<d[1].babies[baby_uid]>>
    ELSE <<>>

\* Faulty variant: without a previous record the previous time is 0, the
\* default of the current time, and not None.
PreviousEventTime_DefaultZero(previous_baby) ==
    IF previous_baby # <<>> THEN <<previous_baby[1].latest_event.time>> ELSE <<0>>

\* previous_event_time: <<>> is None, <<x>> is the number x.
PreviousEventTime(previous_baby) ==
    IF previous_baby # <<>> THEN <<previous_baby[1].latest_event.time>> ELSE <<>>

CurrentEventTime(latest_event) == Get(latest_event, "time", 0)

\* Faulty variant: the thumbnail is fetched for every baby in every fetch.
ShouldRefetch_Always(previous_event_time, current_event_time) == TRUE

\* Faulty variant: a baby without a previous record is not fetched for.
ShouldRefetch_OnlyKnown(previous_event_time, current_event_time) ==
    /\ previous_event_time # <<>>
    /\ previous_event_time # <<current_event_time>>

\* The condition of the thumbnail fetch.
ShouldRefetch(previous_event_time, current_event_time) ==
    previous_event_time # <<current_event_time>>

\* Faulty variant: the else branch is missing, thumbnail_url stays None.
KeptThumbnail_None(previous_baby) == None

\* The else branch: keep the previous thumbnail URL.
KeptThumbnail(previous_baby) ==
    IF previous_baby # <<>> THEN previous_baby[1].thumbnail_url ELSE None

\* stats.get("latest", {}).get("media_urls", {}).get("thumbnail")
ThumbnailOf(stats) ==
    LET latest_stats == Get(stats, "latest", EmptyDict)
        media_urls == Get(latest_stats, "media_urls", EmptyDict)
    IN  Get(media_urls, "thumbnail", None)

MakeBabyMeta(baby, latest_event, connection_status_response, thumbnail_url) ==
    LET camera_info == baby.camera
        camera == Camera(camera_info.uid,
                         Get(camera_info, "hardware", "Unknown hardware"),
                         Get(camera_info, "mode", "Unknown mode"))
    IN  BabyMeta(baby.uid,
                 camera,
                 Get(baby, "name", baby.uid),
                 LatestEvent(Get(latest_event, "key", "UNKNOWN"),
                             CurrentEventTime(latest_event)),
                 ConnectionStatus(Get(connection_status_response, "connected", FALSE)),
                 DeviceInfo(baby, camera),
                 thumbnail_url)

\* ------------------------------------------- _async_update_data: handlers

\* Faulty variant: the retry is inside the inner try as well.
CatchesUnauthorized_Always(run) == TRUE

\* The inner try covers the first _update_babies only: the retry runs inside
\* the except clause, where a second NanitUnauthorizedError is not caught.
CatchesUnauthorized(run) == run = 1

\* Faulty variant: NanitUnauthorizedError is raised again as it is.
OuterExcept_Reraise(exc) == exc

\* The outer except clauses: what _async_update_data raises for what reached them.
OuterExcept(exc) ==
    IF exc = "NanitUnauthorizedError" THEN "ConfigEntryAuthFailed" ELSE exc

\* Faulty variant: no except clause around get_stats_latest.
StatsExceptCatches_Never(exc, unauthorized_is_api_error) == FALSE

\* The except clause around get_stats_latest.
StatsExceptCatches(exc, unauthorized_is_api_error) ==
    \/ exc = "NanitAPIError"
    \/ exc = "NanitUnauthorizedError" /\ unauthorized_is_api_error

\* ---------------------------------------------------------- camera.py

\* What an entity operation returned last: nothing yet, None, the cached
\* image, or the stream URL of a baby.
Served(kind, value) == [kind |-> kind, value |-> value]

\* NanitCamera.__init__. _cached_image is <<>> for None and <<url>> for the
\* bytes get_thumbnail returned for url. For each call r of
\* async_camera_image, pc[r] is its position, url[r] the URL it passed to
\* get_thumbnail, and alone[r] tells that no other call of this camera has
\* been suspended since it began.
NanitCamera(baby_meta) ==
    [baby_uid |-> baby_meta.baby_uid,
     is_streaming |-> baby_meta.connection_status.connected,
     cached_image |-> <<>>,
     cached_thumbnail_url |-> baby_meta.thumbnail_url,
     pc |-> [r \in Requests |-> "idle"],
     url |-> [r \in Requests |-> None],
     alone |-> [r \in Requests |-> TRUE],
     served |-> Served("nothing", None)]

\* The call r of the camera c can begin: the calls are numbered as they come.
FreeRequest(c, r) ==
    /\ c.pc[r] = "idle"
    /\ \A q \in Requests : q < r => c.pc[q] # "idle"

\* async_camera_image of the camera c, call r, up to its return or to the
\* await of get_thumbnail.
CameraImageBegins(c, r) ==
    IF c.cached_image # <<>>
    THEN [c EXCEPT !.served = Served("image", c.cached_image[1])]
    ELSE IF c.cached_thumbnail_url = None
    THEN [c EXCEPT !.served = Served("none", None)]
    ELSE [c EXCEPT !.pc[r] = "get_thumbnail",
                   !.url[r] = c.cached_thumbnail_url,
                   !.alone = [q \in Requests |->
                                 IF q = r
                                 THEN \A o \in Requests : c.pc[o] = "idle"
                                 ELSE c.pc[q] = "idle"]]

\* Faulty variant: the bytes are returned and not kept.
CameraImageFetched_NotCached(c, r) ==
    [c EXCEPT !.pc[r] = "idle", !.url[r] = None, !.alone[r] = TRUE,
              !.served = Served("image", c.url[r])]

\* get_thumbnail returns the bytes at the URL it was called with, to call r:
\* they are cached and returned.
CameraImageFetched(c, r) ==
    [c EXCEPT !.pc[r] = "idle", !.url[r] = None, !.alone[r] = TRUE,
              !.cached_image = <<c.url[r]>>,
              !.served = Served("image", c.url[r])]

\* get_thumbnail raises anything, to call r: a warning, and None is returned.
CameraImageFailed(c, r) ==
    [c EXCEPT !.pc[r] = "idle", !.url[r] = None, !.alone[r] = TRUE,
              !.served = Served("none", None)]

\* Faulty variant: the cached image is dropped on every update of a baby
\* that is in the snapshot.
HandleCoordinatorUpdate_AlwaysClears(c, d) ==
    IF c.baby_uid \in DOMAIN d.babies
    THEN LET baby == d.babies[c.baby_uid]
         IN  [c EXCEPT !.is_streaming = baby.connection_status.connected,
                       !.cached_image = <<>>,
                       !.cached_thumbnail_url = baby.thumbnail_url]
    ELSE c

\* NanitCamera._handle_coordinator_update, with coordinator.data = d.
HandleCoordinatorUpdate(c, d) ==
    IF c.baby_uid \in DOMAIN d.babies
    THEN LET baby == d.babies[c.baby_uid]
         IN  IF baby.thumbnail_url # c.cached_thumbnail_url
             THEN [c EXCEPT !.is_streaming = baby.connection_status.connected,
                            !.cached_image = <<>>,
                            !.cached_thumbnail_url = baby.thumbnail_url]
             ELSE [c EXCEPT !.is_streaming = baby.connection_status.connected]
    ELSE c

\* The host calls the listeners of the coordinator when it has stored d.
UpdateListeners(cs, d) ==
    IF cs = <<>>
    THEN cs
    ELSE << [uid \in DOMAIN cs[1] |-> HandleCoordinatorUpdate(cs[1][uid], d)] >>

\* ---------------------------------------------------------- sensor.py

\* obj.name of a dataclass instance: <<value>>, or <<>> where Python raises
\* AttributeError because the class has no such field.
GetAttr(obj, name) == IF name \in DOMAIN obj THEN <<obj[name]>> ELSE <<>>

\* NanitLatestEventSensor.__init__
NanitLatestEventSensor(baby_meta) ==
    [baby_uid |-> baby_meta.baby_uid, kind |-> "latest_event",
     native_value |-> baby_meta.latest_event.key]

\* NanitConnectionStatusSensor.__init__
NanitConnectionStatusSensor(baby_meta) ==
    [baby_uid |-> baby_meta.baby_uid, kind |-> "connection_status",
     native_value |-> IF baby_meta.connection_status.connected
                      THEN "online" ELSE "offline"]

\* NanitLastSeenSensor.__init__: <<entity>>, or <<>> when reading
\* connection_status.last_seen raises AttributeError.
NanitLastSeenSensor(baby_meta) ==
    LET last_seen == GetAttr(baby_meta.connection_status, "last_seen")
    IN  IF last_seen = <<>>
        THEN <<>>
        ELSE <<[baby_uid |-> baby_meta.baby_uid, kind |-> "last_seen",
                native_value |-> last_seen[1]]>>

\* async_setup_entry of sensor.py for the snapshot d: the entities given to
\* async_add_entities, or the exception of a constructor of the loop, which
\* leaves the platform without entities.
SensorSetupEntry(d) ==
    IF \E uid \in DOMAIN d.babies : NanitLastSeenSensor(d.babies[uid]) = <<>>
    THEN [raised |-> "AttributeError", entities |-> {}]
    ELSE [raised |-> None,
          entities |-> UNION { { NanitLatestEventSensor(d.babies[uid]),
                                 NanitConnectionStatusSensor(d.babies[uid]),
                                 NanitLastSeenSensor(d.babies[uid])[1] } :
                               uid \in DOMAIN d.babies }]

\* How a call of _handle_coordinator_update of a sensor ends: the entity
\* after it, whether async_write_ha_state was called, and what was raised.
SensorUpdated(entity, written, raised) ==
    [entity |-> entity, written |-> written, raised |-> raised]

\* _handle_coordinator_update of the sensor e, with coordinator.data = d.
SensorHandleCoordinatorUpdate(e, d) ==
    IF e.baby_uid \notin DOMAIN d.babies
    THEN SensorUpdated(e, FALSE, None)
    ELSE LET baby == d.babies[e.baby_uid]
         IN  IF e.kind = "latest_event"
             THEN SensorUpdated([e EXCEPT !.native_value = baby.latest_event.key],
                                TRUE, None)
             ELSE IF e.kind = "connection_status"
             THEN SensorUpdated([e EXCEPT !.native_value =
                                    IF baby.connection_status.connected
                                    THEN "online" ELSE "offline"],
                                TRUE, None)
             ELSE LET last_seen == GetAttr(baby.connection_status, "last_seen")
                  IN  IF last_seen = <<>>
                      THEN SensorUpdated(e, FALSE, "AttributeError")
                      ELSE SensorUpdated([e EXCEPT !.native_value = last_seen[1]],
                                         TRUE, None)

\* Sensor entities of the baby uid, with the values they can hold.
SensorEntities(uid) ==
    { [baby_uid |-> uid, kind |-> "latest_event", native_value |-> key] :
          key \in {"FELL_ASLEEP", "WOKE_UP", "UNKNOWN"} }
    \cup { [baby_uid |-> uid, kind |-> "connection_status", native_value |-> status] :
               status \in {"online", "offline"} }
    \cup { [baby_uid |-> uid, kind |-> "last_seen", native_value |-> 0] }

\* ------------------------------------------------ config_flow.py: values

\* What the user can type into the forms.
Emails == {"ada@example.org", "bob@example.org"}

Passwords == {"pw-1", "pw-2"}

Codes == {"1234", "0000"}

\* The dicts that pass the schema of the form step_id.
FormInputs(step_id) ==
    IF step_id = "user"
    THEN [email : Emails, password : Passwords]
    ELSE IF step_id = "reauth_confirm"
    THEN [password : Passwords]
    ELSE [code : Codes]

\* What the service has to say to initiate_login: an MFA token, or an error.
InitiateLoginAnswers == {"mfa-1", "NanitAPIError", "ClientError"}

\* What the service has to say to complete_login: a token pair, or an error.
CompleteLoginAnswers == {"tokens", "NanitAPIError", "ClientError"}

\* The token pair of a completed login.
LoginTokens == [access_token |-> "at2", refresh_token |-> "rt2"]

\* What the service has to say to the login call behind the form step_id.
LoginAnswers(step_id) ==
    IF step_id \in {"user", "reauth_confirm"}
    THEN InitiateLoginAnswers
    ELSE CompleteLoginAnswers

\* The value of calling an async function: a coroutine object, which has run
\* nothing of the function's body.
Coroutine == [type |-> "coroutine"]

\* The value of awaiting it: the tuple the function returns, and the call it
\* made to the client on the way.
Awaited(items, call) == [type |-> "tuple", items |-> items, call |-> call]

\* await self._start_login(email, password), the service answering answer.
StartLogin(email, password, answer) ==
    LET call == [name |-> "initiate_login", email |-> email,
                 password |-> password, returned |-> answer]
    IN  IF answer = "NanitAPIError"
        THEN Awaited(<<None, DictSet(EmptyDict, "base", "invalid_auth")>>, call)
        ELSE IF answer = "ClientError"
        THEN Awaited(<<None, DictSet(EmptyDict, "base", "unknown")>>, call)
        ELSE Awaited(<<answer, EmptyDict>>, call)

\* await self._complete_login(email, password, mfa_token, mfa_code).
CompleteLogin(email, password, mfa_token, mfa_code, answer) ==
    LET call == [name |-> "complete_login", email |-> email,
                 password |-> password, mfa_token |-> mfa_token,
                 mfa_code |-> mfa_code, returned |-> answer]
    IN  IF answer = "NanitAPIError"
        THEN Awaited(<<None, None, DictSet(EmptyDict, "base", "invalid_auth")>>, call)
        ELSE IF answer = "ClientError"
        THEN Awaited(<<None, None, DictSet(EmptyDict, "base", "unknown")>>, call)
        ELSE Awaited(<<LoginTokens.access_token, LoginTokens.refresh_token,
                       EmptyDict>>, call)

\* ------------------------------------------------- config_flow.py: the flow

\* One flow of the host's flow manager: its source, the step of the form on
\* screen (the host calls async_step_<step_id> with what the user submits),
\* the errors of that form, self.data, the client calls made so far, and how
\* the last call of a step handler ended (result): "form", "create_entry"
\* or "abort" with the entry data in entry, or the exception it raised.
NoFlow ==
    [source |-> "none", step_id |-> "none", errors |-> EmptyDict,
     data |-> <<>>, calls |-> <<>>, result |-> "none", entry |-> <<>>,
     user_input |-> <<>>, answer |-> <<>>]

NewFlow(source) == [NoFlow EXCEPT !.source = source]

\* self.async_show_form(step_id=..., errors=...)
ShowForm(fl, step_id, errors) ==
    [fl EXCEPT !.step_id = step_id, !.errors = errors, !.result = "form"]

\* self.async_create_entry(data=...): the flow is over, the host adds an entry.
CreateEntry(fl, entry) ==
    [fl EXCEPT !.step_id = "none", !.errors = EmptyDict,
               !.result = "create_entry", !.entry = <<entry>>]

\* self.async_update_reload_and_abort(entry, data_updates=...): the flow is
\* over, the host updates the entry and reloads it.
UpdateReloadAndAbort(fl, data_updates) ==
    [fl EXCEPT !.step_id = "none", !.errors = EmptyDict,
               !.result = "abort", !.entry = <<data_updates>>]

\* The step handler raises: the host reports the error and the flow stays at
\* the form it was at.
StepRaises(fl, exc) == [fl EXCEPT !.result = exc]

\* async_step_user. _start_login is called without await, and its value is
\* unpacked into two names: unpacking anything but the tuple raises TypeError.
AsyncStepUser(fl, user_input, answer) ==
    IF user_input = <<>>
    THEN ShowForm(fl, "user", EmptyDict)
    ELSE LET email == user_input[1].email
             password == user_input[1].password
             started == Coroutine
         IN  IF started.type # "tuple"
             THEN StepRaises(fl, "TypeError")
             ELSE LET mfa_token == started.items[1]
                      errors == started.items[2]
                      called == [fl EXCEPT !.calls = Append(@, started.call)]
                  IN  IF mfa_token = None
                      THEN ShowForm(called, "user", errors)
                      ELSE ShowForm([called EXCEPT !.data =
                                        <<[email |-> email, password |-> password,
                                           token |-> mfa_token]>>],
                                    "mfa", EmptyDict)

\* async_step_mfa
AsyncStepMfa(fl, user_input, answer) ==
    IF user_input = <<>>
    THEN ShowForm(fl, "mfa", EmptyDict)
    ELSE LET completed == CompleteLogin(fl.data[1].email, fl.data[1].password,
                                        fl.data[1].token, user_input[1].code,
                                        answer)
             access_token == completed.items[1]
             refresh_token == completed.items[2]
             errors == completed.items[3]
             called == [fl EXCEPT !.calls = Append(@, completed.call)]
         IN  IF access_token = None
             THEN ShowForm(called, "mfa", errors)
             ELSE CreateEntry(called,
                      [email |-> fl.data[1].email, access_token |-> access_token,
                       refresh_token |-> refresh_token])

\* async_step_reauth_confirm, reauth_entry being the entry of the flow. It
\* calls _start_login without await as async_step_user does; past that, it
\* reads user_input[CONF_EMAIL], and shows its MFA form under step_id "mfa".
AsyncStepReauthConfirm(fl, user_input, answer, reauth_entry) ==
    IF user_input = <<>>
    THEN ShowForm(fl, "reauth_confirm", EmptyDict)
    ELSE LET email == reauth_entry.email
             password == user_input[1].password
             started == Coroutine
         IN  IF started.type # "tuple"
             THEN StepRaises(fl, "TypeError")
             ELSE LET mfa_token == started.items[1]
                      errors == started.items[2]
                      called == [fl EXCEPT !.calls = Append(@, started.call)]
                  IN  IF mfa_token = None
                      THEN ShowForm(called, "reauth_confirm", errors)
                      ELSE IF "email" \notin DOMAIN user_input[1]
                      THEN StepRaises(called, "KeyError")
                      ELSE ShowForm([called EXCEPT !.data =
                                        <<[email |-> user_input[1].email,
                                           password |-> user_input[1].password,
                                           token |-> mfa_token]>>],
                                    "mfa", EmptyDict)

\* async_step_reauth
AsyncStepReauth(fl, reauth_entry) ==
    AsyncStepReauthConfirm(fl, <<>>, <<>>, reauth_entry)

\* async_step_reauth_mfa
AsyncStepReauthMfa(fl, user_input, answer) ==
    IF user_input = <<>>
    THEN ShowForm(fl, "mfa", EmptyDict)
    ELSE LET completed == CompleteLogin(fl.data[1].email, fl.data[1].password,
                                        fl.data[1].token, user_input[1].code,
                                        answer)
             access_token == completed.items[1]
             refresh_token == completed.items[2]
             errors == completed.items[3]
             called == [fl EXCEPT !.calls = Append(@, completed.call)]
         IN  IF access_token = None
             THEN ShowForm(called, "mfa", errors)
             ELSE UpdateReloadAndAbort(called,
                      [email |-> fl.data[1].email, access_token |-> access_token,
                       refresh_token |-> refresh_token])

\* The host's dispatch of a submitted form: getattr(flow, "async_step_" +
\* step_id), step_id being the one the form was shown with.
HandleStep(fl, user_input, answer, reauth_entry) ==
    LET asked == [fl EXCEPT !.user_input = user_input, !.answer = <<answer>>]
    IN  IF fl.step_id = "user"
        THEN AsyncStepUser(asked, user_input, answer)
        ELSE IF fl.step_id = "mfa"
        THEN AsyncStepMfa(asked, user_input, answer)
        ELSE IF fl.step_id = "reauth_confirm"
        THEN AsyncStepReauthConfirm(asked, user_input, answer, reauth_entry)
        ELSE AsyncStepReauthMfa(asked, user_input, answer)

\* The flows of the integration: the one the user started from the
\* integrations page, and the one ConfigEntryAuthFailed started.
NoFlows == [user |-> NoFlow, reauth |-> NoFlow]

\* ------------------------------------------------------------------ frames

ZeroCount == [uid \in BabyUids |-> 0]

\* A frame holds the position of one invocation (pc, run), the locals of
\* _update_babies, and history: the calls the invocation made (calls), how
\* each one that is over ended (results), the get_stats_latest calls per baby
\* of this _update_babies and of the whole invocation, coordinator.data as it
\* was when the invocation began, and the values that the log records about
\* tokens were formatted with (log).
IdleFrame ==
    [pc |-> "idle", caller |-> "none", run |-> 0,
     babies |-> <<>>, i |-> 0, baby_metas |-> EmptyDict,
     latest_event |-> <<>>, connection_status_response |-> <<>>,
     calls |-> <<>>, results |-> <<>>,
     run_thumb |-> ZeroCount, cycle_thumb |-> ZeroCount,
     data_at_start |-> <<>>, log |-> {}]

\* The arguments of the two token records at the head of _update_babies, of
\* a client that holds the tokens c.
UpdateBabiesLog(c) == {c.access_token, c.refresh_token}

\* The arguments of the record that follows refresh_session.
RefreshLog(tokens) == {tokens.access_token, tokens.refresh_token}

\* _async_update_data entered and run up to the first await of _update_babies,
\* by a coordinator whose client holds the tokens c.
StartFrameOf(caller, d, c) ==
    [IdleFrame EXCEPT !.pc = "get_babies", !.caller = caller, !.run = 1,
                      !.calls = <<"_update_babies">>, !.data_at_start = d,
                      !.log = UpdateBabiesLog(c)]

StartFrame(caller, d) == StartFrameOf(caller, d, client)

\* The inner except clause: refresh_session is awaited.
RefreshFrame(f) ==
    [f EXCEPT !.pc = "refresh_session",
              !.calls = Append(f.calls, "refresh_session"),
              !.results = Append(f.results, "NanitUnauthorizedError")]

\* The retry: a new call of _update_babies from the except clause.
RetryFrame(f) ==
    [f EXCEPT !.pc = "get_babies", !.run = 2,
              !.babies = <<>>, !.i = 0, !.baby_metas = EmptyDict,
              !.latest_event = <<>>, !.connection_status_response = <<>>,
              !.calls = Append(f.calls, "_update_babies"),
              !.results = Append(f.results, "ok"),
              !.run_thumb = ZeroCount]

\* The retry with what is logged on the way to it: the new tokens after
\* refresh_session, and the client's tokens at the head of _update_babies.
RetryFrameOf(f, tokens) ==
    [RetryFrame(f) EXCEPT !.log = f.log \cup RefreshLog(tokens)
                                        \cup UpdateBabiesLog(tokens)]

NoLast ==
    [caller |-> "none", outcome |-> "none", calls |-> <<>>, results |-> <<>>,
     run_thumb |-> ZeroCount, cycle_thumb |-> ZeroCount,
     returned |-> <<>>, listed |-> {}, changed |-> {}, log |-> {}]

InFlight(t) == task[t].pc # "idle"

NoneInFlight == \A t \in Tasks : ~InFlight(t)

\* A new invocation takes the first free frame.
FreeFrame(t) ==
    /\ ~InFlight(t)
    /\ \A u \in Tasks : u < t => InFlight(u)

CurrentBaby(f) == f.babies[f.i]

\* The session of the Session/Token Manager: Unauthenticated from the
\* irrecoverable refresh failure until the entry has been set up again.
SessionState == IF phase = "reauth" THEN "Unauthenticated" ELSE "Authenticated"

\* ------------------------------------------------- how an invocation ends

\* The devices of baby_metas whose latest-event time is not the one the
\* snapshot d holds for them.
ChangedSince(d, baby_metas) ==
    { uid \in DOMAIN baby_metas :
        \/ d = <<>>
        \/ uid \notin DOMAIN d[1].babies
        \/ d[1].babies[uid].latest_event.time # baby_metas[uid].latest_event.time }

Summary(f, outcome, result, returned, changed) ==
    [caller |-> f.caller, outcome |-> outcome, calls |-> f.calls,
     results |-> Append(f.results, result),
     run_thumb |-> f.run_thumb, cycle_thumb |-> f.cycle_thumb,
     returned |-> returned,
     listed |-> { f.babies[j].uid : j \in 1..Len(f.babies) },
     changed |-> changed, log |-> f.log]

\* _update_babies returns NanitData(babies=baby_metas) and _async_update_data
\* returns it to its caller without another await. _async_setup drops the
\* value, and async_config_entry_first_refresh goes on to the first refresh;
\* the host's refresh stores the value as coordinator.data.
Returns(t, f, baby_metas) ==
    LET result == NanitData(baby_metas)
    IN  /\ last' = Summary(f, "ok", "ok", <<result>>,
                           ChangedSince(data, baby_metas))
        /\ IF f.caller = "_async_setup"
           THEN /\ task' = [task EXCEPT ![t] = StartFrame("refresh", data)]
                /\ UNCHANGED <<data, phase, cameras>>
           ELSE /\ task' = [task EXCEPT ![t] = IdleFrame]
                /\ data' = <<result>>
                /\ phase' = IF phase = "setup" THEN "loaded" ELSE phase
                /\ cameras' = UpdateListeners(cameras, result)
        /\ UNCHANGED <<flow, client, entry_data, simple>>

\* Faulty variant: a failed refresh forgets the snapshot.
RaisesAs_DropsData(t, f, exc, err) ==
    /\ last' = Summary(f, err, exc, <<>>, {})
    /\ task' = [task EXCEPT ![t] = IdleFrame]
    /\ IF err = "ConfigEntryAuthFailed"
       THEN /\ phase' = "reauth"
            /\ flow' = [flow EXCEPT !.reauth =
                            AsyncStepReauth(NewFlow("reauth"), entry_data)]
       ELSE UNCHANGED <<phase, flow>>
    /\ data' = <<>>
    /\ UNCHANGED <<client, entry_data, simple, cameras>>

\* _async_update_data raises err, for the exception exc of its last call.
\* ConfigEntryAuthFailed cancels future updates and starts a config flow with
\* SOURCE_REAUTH: async_step_reauth shows the reauth_confirm form. Anything
\* else is left to the host, which keeps the previous data and its schedule
\* (or sets the entry up again later).
RaisesAs(t, f, exc, err) ==
    /\ last' = Summary(f, err, exc, <<>>, {})
    /\ task' = [task EXCEPT ![t] = IdleFrame]
    /\ IF err = "ConfigEntryAuthFailed"
       THEN /\ phase' = "reauth"
            /\ flow' = [flow EXCEPT !.reauth =
                            AsyncStepReauth(NewFlow("reauth"), entry_data)]
       ELSE UNCHANGED <<phase, flow>>
    /\ UNCHANGED <<data, client, entry_data, simple, cameras>>

\* exc reaches the outer except clauses.
Raises(t, f, exc) == RaisesAs(t, f, exc, OuterExcept(exc))

\* An exception leaves _update_babies. The first NanitUnauthorizedError of an
\* invocation is caught by the inner except clause, which awaits
\* refresh_session; everything else reaches the outer except clauses.
FetchRaises(t, f, exc) ==
    IF exc = "NanitUnauthorizedError" /\ CatchesUnauthorized(f.run)
    THEN /\ task' = [task EXCEPT ![t] = RefreshFrame(f)]
         /\ UNCHANGED <<data, phase, flow, client, entry_data, last, simple, cameras>>
    ELSE Raises(t, f, exc)

\* Faulty variant: the loop writes each record into coordinator.data.babies as well.
StoreBaby_InPlace(t, f, baby_meta) ==
    LET baby_metas == DictSet(f.baby_metas, baby_meta.baby_uid, baby_meta)
    IN  IF f.i < Len(f.babies)
        THEN /\ task' = [task EXCEPT ![t] =
                    [f EXCEPT !.baby_metas = baby_metas, !.i = f.i + 1,
                              !.pc = "get_latest_event",
                              !.latest_event = <<>>,
                              !.connection_status_response = <<>>]]
             /\ data' = IF data = <<>>
                        THEN data
                        ELSE <<NanitData(DictSet(data[1].babies,
                                                 baby_meta.baby_uid, baby_meta))>>
             /\ UNCHANGED <<phase, flow, client, entry_data, last, simple, cameras>>
        ELSE Returns(t, f, baby_metas)

\* Faulty variant: the records are stored under the camera's uid.
StoreBaby_ByCameraUid(t, f, baby_meta) ==
    LET baby_metas == DictSet(f.baby_metas, baby_meta.camera.camera_uid, baby_meta)
    IN  IF f.i < Len(f.babies)
        THEN /\ task' = [task EXCEPT ![t] =
                    [f EXCEPT !.baby_metas = baby_metas, !.i = f.i + 1,
                              !.pc = "get_latest_event",
                              !.latest_event = <<>>,
                              !.connection_status_response = <<>>]]
             /\ UNCHANGED <<data, phase, flow, client, entry_data, last, simple, cameras>>
        ELSE Returns(t, f, baby_metas)

\* baby_metas[baby_meta.baby_uid] = baby_meta, then the next baby of the loop
\* or, after the last one, the return.
StoreBaby(t, f, baby_meta) ==
    LET baby_metas == DictSet(f.baby_metas, baby_meta.baby_uid, baby_meta)
    IN  IF f.i < Len(f.babies)
        THEN /\ task' = [task EXCEPT ![t] =
                    [f EXCEPT !.baby_metas = baby_metas, !.i = f.i + 1,
                              !.pc = "get_latest_event",
                              !.latest_event = <<>>,
                              !.connection_status_response = <<>>]]
             /\ UNCHANGED <<data, phase, flow, client, entry_data, last, simple, cameras>>
        ELSE Returns(t, f, baby_metas)

\* ---------------------------------------------- src/__init__.py: the frame

\* The coordinator of src/__init__.py after __init__, in an entry being set
\* up: babies is self.babies, the rest is the frame of _async_update_data and
\* the history of its calls.
SimpleInit ==
    [phase |-> "setup", babies |-> <<>>, pc |-> "idle", caller |-> "none",
     calls |-> <<>>, results |-> <<>>, outcome |-> "none"]

\* _async_update_data is entered and awaits get_babies.
SimpleStart(s, caller) ==
    [s EXCEPT !.pc = "get_babies", !.caller = caller,
              !.calls = <<"get_babies">>, !.results = <<>>, !.outcome = "none"]

\* except pynanit.NanitAPIError, of the inner and of the outer try.
SimpleCatches(exc, unauthorized_is_api_error) ==
    \/ exc = "NanitAPIError"
    \/ exc = "NanitUnauthorizedError" /\ unauthorized_is_api_error

\* What leaves _async_update_data when exc reaches the outer try.
SimpleOuterExcept(exc, unauthorized_is_api_error) ==
    IF SimpleCatches(exc, unauthorized_is_api_error)
    THEN "ConfigEntryAuthFailed"
    ELSE exc

\* ------------------------------------------------------------------ actions

Init ==
    /\ data = <<>>
    /\ task = [t \in Tasks |-> IdleFrame]
    /\ phase = "setup"
    /\ flow = NoFlows
    /\ client = InitialTokens
    /\ entry_data = [email |-> "ada@example.org",
                     access_token |-> InitialTokens.access_token,
                     refresh_token |-> InitialTokens.refresh_token]
    /\ last = NoLast
    /\ simple = SimpleInit
    /\ cameras = <<>>

\* async_setup_entry: a client with the entry's tokens, a coordinator without
\* data, and async_config_entry_first_refresh, which awaits _async_setup first.
FirstRefresh(t) ==
    /\ phase = "setup"
    /\ NoneInFlight
    /\ FreeFrame(t)
    /\ client' = [access_token |-> entry_data.access_token,
                  refresh_token |-> entry_data.refresh_token]
    /\ data' = <<>>
    /\ task' = [task EXCEPT ![t] = StartFrameOf("_async_setup", <<>>, client')]
    /\ last' = NoLast
    /\ UNCHANGED <<phase, flow, entry_data, simple, cameras>>

\* The host's refresh of a loaded entry, scheduled (update_interval) or on
\* request; the host runs one at a time.
HostRefresh(t) ==
    /\ phase = "loaded"
    /\ NoneInFlight
    /\ FreeFrame(t)
    /\ task' = [task EXCEPT ![t] = StartFrame("refresh", data)]
    /\ last' = NoLast
    /\ UNCHANGED <<data, phase, flow, client, entry_data, simple, cameras>>

\* _async_update_data called with nothing but the coordinator's own code
\* between the caller and the fetch.
DirectUpdate(t) ==
    /\ phase = "loaded"
    /\ FreeFrame(t)
    /\ task' = [task EXCEPT ![t] = StartFrame("refresh", data)]
    /\ last' = IF NoneInFlight THEN NoLast ELSE last
    /\ UNCHANGED <<data, phase, flow, client, entry_data, simple, cameras>>

GetBabiesReturns(t, babies) ==
    LET f == task[t]
    IN  /\ f.pc = "get_babies"
        /\ IF babies.babies = <<>>
           THEN Returns(t, f, EmptyDict)
           ELSE /\ task' = [task EXCEPT ![t] =
                       [f EXCEPT !.babies = babies.babies, !.i = 1,
                                 !.pc = "get_latest_event"]]
                /\ UNCHANGED <<data, phase, flow, client, entry_data, last, simple, cameras>>

GetLatestEventReturns(t, latest_event) ==
    LET f == task[t]
    IN  /\ f.pc = "get_latest_event"
        /\ task' = [task EXCEPT ![t] =
               [f EXCEPT !.latest_event = <<latest_event>>,
                         !.pc = "get_connection_status"]]
        /\ UNCHANGED <<data, phase, flow, client, entry_data, last, simple, cameras>>

\* get_connection_status returns; the code runs on to the next await: either
\* get_stats_latest, or (thumbnail kept) the next baby's get_latest_event, or
\* the return.
GetConnectionStatusReturns(t, connection_status_response) ==
    LET f == task[t]
        baby == CurrentBaby(f)
        baby_uid == baby.uid
        latest_event == f.latest_event[1]
        current_event_time == CurrentEventTime(latest_event)
        previous_baby == PreviousBaby(data, baby_uid)
        previous_event_time == PreviousEventTime(previous_baby)
    IN  /\ f.pc = "get_connection_status"
        /\ IF ShouldRefetch(previous_event_time, current_event_time)
           THEN /\ task' = [task EXCEPT ![t] =
                       [f EXCEPT !.connection_status_response =
                                     <<connection_status_response>>,
                                 !.pc = "get_stats_latest",
                                 !.run_thumb[baby_uid] = @ + 1,
                                 !.cycle_thumb[baby_uid] = @ + 1]]
                /\ UNCHANGED <<data, phase, flow, client, entry_data, last, simple, cameras>>
           ELSE StoreBaby(t, f,
                    MakeBabyMeta(baby, latest_event, connection_status_response,
                                 KeptThumbnail(previous_baby)))

GetStatsLatestReturns(t, stats) ==
    LET f == task[t]
    IN  /\ f.pc = "get_stats_latest"
        /\ StoreBaby(t, f,
               MakeBabyMeta(CurrentBaby(f), f.latest_event[1],
                            f.connection_status_response[1], ThumbnailOf(stats)))

\* get_stats_latest raises: a caught error leaves thumbnail_url None.
GetStatsLatestRaises(t, exc, unauthorized_is_api_error) ==
    LET f == task[t]
    IN  /\ f.pc = "get_stats_latest"
        /\ IF StatsExceptCatches(exc, unauthorized_is_api_error)
           THEN StoreBaby(t, f,
                    MakeBabyMeta(CurrentBaby(f), f.latest_event[1],
                                 f.connection_status_response[1], None))
           ELSE FetchRaises(t, f, exc)

\* get_babies, get_latest_event or get_connection_status raises.
FetchCallRaises(t, exc) ==
    LET f == task[t]
    IN  /\ f.pc \in {"get_babies", "get_latest_event", "get_connection_status"}
        /\ FetchRaises(t, f, exc)

\* Faulty variant: only the access token is written to the entry.
RefreshSessionReturns_AccessOnly(t, tokens) ==
    LET f == task[t]
    IN  /\ f.pc = "refresh_session"
        /\ client' = tokens
        /\ entry_data' = [entry_data EXCEPT !.access_token = tokens.access_token]
        /\ task' = [task EXCEPT ![t] = RetryFrameOf(f, tokens)]
        /\ UNCHANGED <<data, phase, flow, last, simple, cameras>>

\* refresh_session returns the new pair, which the client keeps; the entry is
\* updated and _update_babies is called again.
RefreshSessionReturns(t, tokens) ==
    LET f == task[t]
    IN  /\ f.pc = "refresh_session"
        /\ client' = tokens
        /\ entry_data' = [entry_data EXCEPT
                              !.access_token = tokens.access_token,
                              !.refresh_token = tokens.refresh_token]
        /\ task' = [task EXCEPT ![t] = RetryFrameOf(f, tokens)]
        /\ UNCHANGED <<data, phase, flow, last, simple, cameras>>

\* Faulty variant: a failed refresh_session leaves the client without tokens.
RefreshSessionRaises_ClearsTokens(t, exc) ==
    LET f == task[t]
        err == OuterExcept(exc)
    IN  /\ f.pc = "refresh_session"
        /\ last' = Summary(f, err, exc, <<>>, {})
        /\ task' = [task EXCEPT ![t] = IdleFrame]
        /\ IF err = "ConfigEntryAuthFailed"
           THEN /\ phase' = "reauth"
                /\ flow' = [flow EXCEPT !.reauth =
                                AsyncStepReauth(NewFlow("reauth"), entry_data)]
           ELSE UNCHANGED <<phase, flow>>
        /\ client' = [access_token |-> None, refresh_token |-> None]
        /\ UNCHANGED <<data, entry_data, simple, cameras>>

\* Faulty variant: refresh_session is awaited outside the outer try.
RefreshSessionRaises_OutsideTry(t, exc) ==
    LET f == task[t]
    IN  /\ f.pc = "refresh_session"
        /\ RaisesAs(t, f, exc, exc)

RefreshSessionRaises(t, exc) ==
    LET f == task[t]
    IN  /\ f.pc = "refresh_session"
        /\ Raises(t, f, exc)

\* The host sets the entry up again after ConfigEntryAuthFailed (a reload or a
\* restart of the host): async_setup_entry runs again, with the entry's data
\* as they are. The reauth flow of config_flow.py cannot do it, see
\* async_step_reauth_confirm below.
ReloadEntry ==
    /\ phase = "reauth"
    /\ NoneInFlight
    /\ phase' = "setup"
    /\ flow' = [flow EXCEPT !.reauth = NoFlow]
    /\ data' = <<>>
    /\ last' = NoLast
    /\ cameras' = <<>>
    /\ UNCHANGED <<task, client, entry_data, simple>>

\* The answers of the vendor API: every answer listed above.
FullApi ==
    [babies |-> BabiesResponses, events |-> EventResponses,
     stats |-> StatsResponses, fetch_errors |-> FetchErrors,
     refresh_errors |-> RefreshErrors]

\* The connection-status answers the request frame t waits for can get.
CameraResponses(t) ==
    IF task[t].pc = "get_connection_status"
    THEN ConnectionResponses(CurrentBaby(task[t]).camera.uid)
    ELSE {}

\* A call answers, for the invocation in frame t.
Step(t, api) ==
    \/ \E babies \in api.babies : GetBabiesReturns(t, babies)
    \/ \E latest_event \in api.events : GetLatestEventReturns(t, latest_event)
    \/ \E response \in CameraResponses(t) : GetConnectionStatusReturns(t, response)
    \/ \E stats \in api.stats : GetStatsLatestReturns(t, stats)
    \/ \E exc \in api.fetch_errors, sub \in UnauthorizedIsAPIError :
           GetStatsLatestRaises(t, exc, sub)
    \/ \E exc \in api.fetch_errors : FetchCallRaises(t, exc)
    \/ \E tokens \in RefreshedTokens : RefreshSessionReturns(t, tokens)
    \/ \E exc \in api.refresh_errors : RefreshSessionRaises(t, exc)

Next ==
    \/ \E t \in Tasks : FirstRefresh(t)
    \/ \E t \in Tasks : HostRefresh(t)
    \/ \E t \in Tasks : Step(t, FullApi)
    \/ ReloadEntry

Spec == Init /\ [][Next]_vars

\* The same program with its callers not serialised by the host, for an
\* account with one device whose event and thumbnail do not change.
DirectApi ==
    [babies |-> { [babies |-> <<BabyDict("baby-1")>>] },
     events |-> { [key |-> "FELL_ASLEEP", time |-> 100] },
     stats |-> { [latest |-> [media_urls |-> [thumbnail |-> "url-a"]]] },
     fetch_errors |-> {"NanitUnauthorizedError", "ClientError"},
     refresh_errors |-> {"NanitUnauthorizedError"}]

NextDirect ==
    \/ \E t \in Tasks : FirstRefresh(t)
    \/ \E t \in Tasks : DirectUpdate(t)
    \/ \E t \in Tasks : Step(t, DirectApi)
    \/ ReloadEntry

SpecDirect == Init /\ [][NextDirect]_vars

\* ------------------------------------------------------ camera.py: actions

\* async_setup_entry of camera.py, forwarded by the entry's setup after the
\* first refresh: one NanitCamera for each baby of coordinator.data.
CameraSetupEntry ==
    /\ phase = "loaded"
    /\ cameras = <<>>
    /\ NoneInFlight
    /\ data # <<>>
    /\ cameras' = << [uid \in DOMAIN data[1].babies |->
                         NanitCamera(data[1].babies[uid])] >>
    /\ UNCHANGED <<data, task, phase, flow, client, entry_data, last, simple>>

\* async_camera_image is called, and runs to its return or to the await of
\* get_thumbnail.
AsyncCameraImage(uid, r) ==
    /\ cameras # <<>>
    /\ uid \in DOMAIN cameras[1]
    /\ FreeRequest(cameras[1][uid], r)
    /\ cameras' = << [cameras[1] EXCEPT ![uid] = CameraImageBegins(@, r)] >>
    /\ UNCHANGED <<data, task, phase, flow, client, entry_data, last, simple>>

\* get_thumbnail returns to call r of the camera of uid.
GetThumbnailReturns(uid, r) ==
    /\ cameras # <<>>
    /\ uid \in DOMAIN cameras[1]
    /\ cameras[1][uid].pc[r] = "get_thumbnail"
    /\ cameras' = << [cameras[1] EXCEPT ![uid] = CameraImageFetched(@, r)] >>
    /\ UNCHANGED <<data, task, phase, flow, client, entry_data, last, simple>>

\* get_thumbnail raises to call r of the camera of uid.
GetThumbnailRaises(uid, r) ==
    /\ cameras # <<>>
    /\ uid \in DOMAIN cameras[1]
    /\ cameras[1][uid].pc[r] = "get_thumbnail"
    /\ cameras' = << [cameras[1] EXCEPT ![uid] = CameraImageFailed(@, r)] >>
    /\ UNCHANGED <<data, task, phase, flow, client, entry_data, last, simple>>

\* stream_source: coordinator.get_stream_url(baby_uid), which asks the client.
StreamSource(uid) ==
    /\ cameras # <<>>
    /\ uid \in DOMAIN cameras[1]
    /\ cameras' = << [cameras[1] EXCEPT ![uid].served = Served("stream", uid)] >>
    /\ UNCHANGED <<data, task, phase, flow, client, entry_data, last, simple>>

\* The coordinator with the camera platform, for an account with at most one
\* baby.
EntityApi ==
    [babies |-> { [babies |-> <<>>], [babies |-> <<BabyDict("baby-1")>>] },
     events |-> EventResponses,
     stats |-> { [latest |-> [media_urls |-> [thumbnail |-> "url-a"]]],
                 [latest |-> [media_urls |-> [thumbnail |-> "url-b"]]] },
     fetch_errors |-> {"NanitUnauthorizedError", "NanitAPIError"},
     refresh_errors |-> {"NanitUnauthorizedError"}]

NextEntities ==
    \/ \E t \in Tasks : FirstRefresh(t)
    \/ \E t \in Tasks : HostRefresh(t)
    \/ \E t \in Tasks : Step(t, EntityApi)
    \/ ReloadEntry
    \/ CameraSetupEntry
    \/ \E uid \in BabyUids, r \in Requests : AsyncCameraImage(uid, r)
    \/ \E uid \in BabyUids, r \in Requests : GetThumbnailReturns(uid, r)
    \/ \E uid \in BabyUids, r \in Requests : GetThumbnailRaises(uid, r)
    \/ \E uid \in BabyUids : StreamSource(uid)

SpecEntities == Init /\ [][NextEntities]_vars

\* -------------------------------------------------- config_flow.py: actions

FlowSources == {"user", "reauth"}

\* The user adds the integration: the host creates a flow with SOURCE_USER
\* and calls async_step_user(None).
FlowInit ==
    /\ flow.user.step_id = "none"
    /\ flow' = [flow EXCEPT !.user = AsyncStepUser(NewFlow("user"), <<>>, <<>>)]
    /\ UNCHANGED <<data, task, phase, client, entry_data, last, simple, cameras>>

\* The user submits the form of the flow of this source: the host validates
\* the input against the form's schema and calls the handler of the form's
\* step. The service would answer the handler's login call with answer. A
\* result of async_update_reload_and_abort makes the host write data_updates
\* into the entry and set the entry up again.
FlowConfigure(source, user_input, answer) ==
    LET fl == flow[source]
        handled == HandleStep(fl, <<user_input>>, answer, entry_data)
    IN  /\ fl.step_id # "none"
        /\ user_input \in FormInputs(fl.step_id)
        /\ answer \in LoginAnswers(fl.step_id)
        /\ IF handled.result = "abort"
           THEN /\ flow' = [NoFlows EXCEPT ![source] = handled]
                /\ entry_data' = [k \in DOMAIN entry_data |->
                                     Get(handled.entry[1], k, entry_data[k])]
                /\ phase' = "setup"
                /\ data' = <<>>
                /\ last' = NoLast
                /\ cameras' = <<>>
                /\ UNCHANGED <<task, client, simple>>
           ELSE /\ flow' = [flow EXCEPT ![source] = handled]
                /\ UNCHANGED <<data, task, phase, client, entry_data, last,
                               simple, cameras>>

\* Every input and every answer a form can get.
AllFormInputs == UNION { FormInputs(step_id) : step_id \in {"user", "reauth_confirm", "mfa"} }

AllLoginAnswers == InitiateLoginAnswers \cup CompleteLoginAnswers

\* The coordinator of an account with one device, and the config flows.
NextFlow ==
    \/ \E t \in Tasks : FirstRefresh(t)
    \/ \E t \in Tasks : HostRefresh(t)
    \/ \E t \in Tasks : Step(t, DirectApi)
    \/ ReloadEntry
    \/ FlowInit
    \/ \E source \in FlowSources, user_input \in AllFormInputs, answer \in AllLoginAnswers :
           FlowConfigure(source, user_input, answer)

SpecFlow == Init /\ [][NextFlow]_vars

\* ------------------------------------------------ src/__init__.py: actions

\* async_setup_entry of src/__init__.py: a coordinator with babies = [] and
\* async_config_entry_first_refresh, which awaits _async_setup first.
SimpleFirstRefresh ==
    /\ simple.phase = "setup"
    /\ simple.pc = "idle"
    /\ simple' = SimpleStart([simple EXCEPT !.babies = <<>>], "_async_setup")
    /\ UNCHANGED <<data, task, phase, flow, client, entry_data, last, cameras>>

\* The host's refresh of the loaded entry, every 30 seconds or on request.
SimpleHostRefresh ==
    /\ simple.phase = "loaded"
    /\ simple.pc = "idle"
    /\ simple' = SimpleStart(simple, "refresh")
    /\ UNCHANGED <<data, task, phase, flow, client, entry_data, last, cameras>>

\* self.babies = await get_babies(), in the timeout block or after the token
\* refresh; _async_update_data returns, and _async_setup is followed by the
\* first refresh.
SimpleGetBabiesReturns(babies) ==
    /\ simple.pc \in {"get_babies", "retry_get_babies"}
    /\ LET s == [simple EXCEPT !.babies = babies.babies,
                               !.results = Append(@, "ok"),
                               !.pc = "idle", !.outcome = "ok"]
       IN  simple' = IF simple.caller = "_async_setup"
                     THEN SimpleStart(s, "refresh")
                     ELSE [s EXCEPT !.phase = "loaded"]
    /\ UNCHANGED <<data, task, phase, flow, client, entry_data, last, cameras>>

\* What leaves _async_update_data: ConfigEntryAuthFailed stops the updates and
\* starts the reauth flow, anything else is left to the host.
SimpleRaises(exc, unauthorized_is_api_error) ==
    LET err == SimpleOuterExcept(exc, unauthorized_is_api_error)
    IN  /\ simple' = [simple EXCEPT
                          !.results = Append(@, exc),
                          !.pc = "idle", !.outcome = err,
                          !.phase = IF err = "ConfigEntryAuthFailed"
                                    THEN "reauth" ELSE @]
        /\ UNCHANGED <<data, task, phase, flow, client, entry_data, last, cameras>>

\* get_babies raises in the timeout block: the inner except clause calls
\* refresh_session, or the exception goes on.
SimpleGetBabiesRaises(exc, unauthorized_is_api_error) ==
    /\ simple.pc = "get_babies"
    /\ IF SimpleCatches(exc, unauthorized_is_api_error)
       THEN /\ simple' = [simple EXCEPT
                              !.results = Append(@, exc),
                              !.calls = Append(@, "refresh_session"),
                              !.pc = "refresh_session"]
            /\ UNCHANGED <<data, task, phase, flow, client, entry_data, last, cameras>>
       ELSE SimpleRaises(exc, unauthorized_is_api_error)

\* refresh_session returns: get_babies is called again.
SimpleRefreshSessionReturns ==
    /\ simple.pc = "refresh_session"
    /\ simple' = [simple EXCEPT !.results = Append(@, "ok"),
                                !.calls = Append(@, "get_babies"),
                                !.pc = "retry_get_babies"]
    /\ UNCHANGED <<data, task, phase, flow, client, entry_data, last, cameras>>

\* refresh_session or the second get_babies raises, in the inner except
\* clause and outside the timeout block.
SimpleHandlerRaises(exc, unauthorized_is_api_error) ==
    /\ simple.pc \in {"refresh_session", "retry_get_babies"}
    /\ SimpleRaises(exc, unauthorized_is_api_error)

\* The reauth flow ends and the entry is set up again.
SimpleReauthCompleted ==
    /\ simple.phase = "reauth"
    /\ simple' = [simple EXCEPT !.phase = "setup"]
    /\ UNCHANGED <<data, task, phase, flow, client, entry_data, last, cameras>>

NextSimple ==
    \/ SimpleFirstRefresh
    \/ SimpleHostRefresh
    \/ \E babies \in BabiesResponses : SimpleGetBabiesReturns(babies)
    \/ \E exc \in FetchErrors, sub \in UnauthorizedIsAPIError :
           SimpleGetBabiesRaises(exc, sub)
    \/ SimpleRefreshSessionReturns
    \/ \E exc \in RefreshErrors, sub \in UnauthorizedIsAPIError :
           SimpleHandlerRaises(exc, sub)
    \/ SimpleReauthCompleted

SpecSimple == Init /\ [][NextSimple]_vars

\* ------------------------------------------------------------------ claims

Count(seq, x) == Cardinality({ j \in 1..Len(seq) : seq[j] = x })

\* An invocation has ended and `last` tells what it did.
Ended == last.outcome # "none"

\* All calls and results of invocations, ended or not.
Histories ==
    { [calls |-> task[t].calls, results |-> task[t].results] : t \in Tasks }
        \cup { [calls |-> last.calls, results |-> last.results] }

\* No invocation calls refresh_session twice or _update_babies three times.
CallBounds ==
    \A h \in Histories :
        /\ Count(h.calls, "refresh_session") <= 1
        /\ Count(h.calls, "_update_babies") <= 2

\* After a refresh that returned, the host's data is what it returned, with a
\* record for each baby of the device list of the fetch that returned.
FreshSnapshot ==
    /\ last.outcome = "ok"
    /\ last.returned # <<>>
    /\ DOMAIN last.returned[1].babies = last.listed
    /\ last.caller = "refresh" => data = last.returned

C2_SecondAuthFailureIsTerminal ==
    /\ \A t \in Tasks : Len(task[t].results) <= 2
    /\ last.results = <<"NanitUnauthorizedError", "ok", "NanitUnauthorizedError">> =>
           /\ last.outcome = "ConfigEntryAuthFailed"
           /\ last.calls = <<"_update_babies", "refresh_session", "_update_babies">>
    /\ last.outcome = "ConfigEntryAuthFailed" =>
           /\ phase = "reauth"
           /\ flow.reauth.step_id = "reauth_confirm"
    /\ phase = "reauth" => NoneInFlight

\* C2 witness: a polling coordinator whose retry got a 401 as well.
C2_Witness ==
    /\ last.results = <<"NanitUnauthorizedError", "ok", "NanitUnauthorizedError">>
    /\ last.outcome = "ConfigEntryAuthFailed"
    /\ data # <<>>
    /\ phase = "reauth"

\* C3: when refresh_session itself fails because the refresh token is
\* rejected, the invocation raises ConfigEntryAuthFailed without a retry, the
\* session goes from Authenticated to Unauthenticated, and no refresh runs
\* until re-authentication.
C3_RejectedRefreshIsTerminal ==
    /\ [](last.results = <<"NanitUnauthorizedError", RefreshRejected>> =>
             /\ last.outcome = "ConfigEntryAuthFailed"
             /\ last.calls = <<"_update_babies", "refresh_session">>
             /\ SessionState = "Unauthenticated"
             /\ NoneInFlight)
    /\ [][(last' # last /\ last'.results = <<"NanitUnauthorizedError", RefreshRejected>>) =>
             /\ SessionState = "Authenticated"
             /\ SessionState' = "Unauthenticated"]_vars
    /\ [](SessionState = "Unauthenticated" => NoneInFlight)

\* C3 witness: refresh_session was rejected after a 401 of a polling
\* coordinator.
C3_Witness ==
    /\ last.results = <<"NanitUnauthorizedError", RefreshRejected>>
    /\ last.outcome = "ConfigEntryAuthFailed"
    /\ SessionState = "Unauthenticated"
    /\ data # <<>>

\* C4: when get_connection_status has answered for a baby of the device list,
\* get_stats_latest is called if and only if the baby's new latest-event time
\* differs from the one coordinator.data holds for it (no record counts as a
\* different time); when the times are equal the new record carries the
\* thumbnail URL of the previous record.
C4_ThumbnailIffTimeChanged ==
    [][\A t \in Tasks : \A response \in CameraResponses(t) :
          GetConnectionStatusReturns(t, response) =>
              LET f == task[t]
                  baby_uid == f.babies[f.i].uid
                  time == IF "time" \in DOMAIN f.latest_event[1]
                          THEN f.latest_event[1].time ELSE 0
                  known == data # <<>> /\ baby_uid \in DOMAIN data[1].babies
                  differs == ~known \/ data[1].babies[baby_uid].latest_event.time # time
                  called == /\ task'[t].pc = "get_stats_latest"
                            /\ task'[t].cycle_thumb[baby_uid] = f.cycle_thumb[baby_uid] + 1
                  record == IF baby_uid \in DOMAIN task'[t].baby_metas
                            THEN task'[t].baby_metas[baby_uid]
                            ELSE last'.returned[1].babies[baby_uid]
              IN  /\ called <=> differs
                  /\ ~differs => task'[t].pc # "get_stats_latest"
                  /\ ~differs =>
                         /\ record.latest_event.time = time
                         /\ record.thumbnail_url =
                                data[1].babies[baby_uid].thumbnail_url]_vars

\* C4 witness: in one fetch, baby-1's time was the stored one and its record
\* carries the stored "url-a" without a call, and get_stats_latest is being
\* called for baby-2.
C4_Witness ==
    \E t \in Tasks :
        /\ task[t].pc = "get_stats_latest"
        /\ task[t].babies[task[t].i].uid = "baby-2"
        /\ "baby-1" \in DOMAIN task[t].baby_metas
        /\ task[t].cycle_thumb["baby-1"] = 0
        /\ task[t].baby_metas["baby-1"].thumbnail_url = "url-a"
        /\ data # <<>>
        /\ data[1].babies["baby-1"].thumbnail_url = "url-a"

C6_Original ==
    last.outcome = "ok" =>
        \A baby_uid \in last.changed : last.cycle_thumb[baby_uid] = 1

\* C6 amended: an _update_babies makes at most one get_stats_latest call per
\* baby, and the one that returns made exactly one for each baby whose
\* latest-event time changed; an invocation therefore makes one such call, or
\* two when it retried after a token refresh, never none and never three.
C6_OneThumbnailFetchPerFetch ==
    /\ \A t \in Tasks : \A baby_uid \in BabyUids :
           /\ task[t].run_thumb[baby_uid] <= 1
           /\ task[t].cycle_thumb[baby_uid] <= 2
           /\ task[t].cycle_thumb[baby_uid] = 2 => task[t].run = 2
    /\ last.outcome = "ok" =>
           \A baby_uid \in last.changed :
               /\ last.run_thumb[baby_uid] = 1
               /\ last.cycle_thumb[baby_uid] \in {1, 2}
               /\ last.cycle_thumb[baby_uid] = 2 =>
                      last.calls = <<"_update_babies", "refresh_session",
                                     "_update_babies">>

\* C6 witness: a refresh that retried after a token refresh called
\* get_stats_latest twice for baby-1, whose time had changed.
C6_Witness ==
    /\ last.outcome = "ok"
    /\ last.caller = "refresh"
    /\ "baby-1" \in last.changed
    /\ last.cycle_thumb["baby-1"] = 2
    /\ last.run_thumb["baby-1"] = 1
    /\ \E baby_uid \in last.changed : last.cycle_thumb[baby_uid] = 1

\* C7: while an invocation is suspended, coordinator.data is the snapshot the
\* invocation started with; data changes only in the step in which a refresh
\* returns, and then to the whole snapshot that refresh built: one record per
\* baby of its device list, each under its own baby_uid (or to None when the
\* entry is set up again).
C7_AtomicReplacement ==
    /\ [](\A t \in Tasks : InFlight(t) => data = task[t].data_at_start)
    /\ [][data' # data =>
             \/ data' = <<>> /\ NoneInFlight
             \/ /\ \E t \in Tasks : InFlight(t) /\ ~InFlight(t)'
                /\ last'.outcome = "ok"
                /\ data' = last'.returned
                /\ DOMAIN data'[1].babies = last'.listed
                /\ \A baby_uid \in last'.listed :
                       data'[1].babies[baby_uid].baby_uid = baby_uid]_vars

\* C7 witness: a retry is suspended between the requests of its second baby,
\* with baby-1's new record built, while data still is the old snapshot, with
\* another record for baby-1.
C7_Witness ==
    \E t \in Tasks :
        /\ task[t].pc = "get_connection_status"
        /\ task[t].run = 2
        /\ "baby-1" \in DOMAIN task[t].baby_metas
        /\ data # <<>>
        /\ data = task[t].data_at_start
        /\ "baby-1" \in DOMAIN data[1].babies
        /\ "baby-2" \in DOMAIN data[1].babies
        /\ data[1].babies["baby-1"] # task[t].baby_metas["baby-1"]

\* C8: an invocation that raises, whatever it raises and wherever, leaves
\* coordinator.data as it was when the invocation started.
C8_FailureKeepsSnapshot ==
    [][\A t \in Tasks :
          (InFlight(t) /\ ~InFlight(t)' /\ last'.outcome # "ok") =>
              /\ data' = data
              /\ data' = task[t].data_at_start]_vars

\* C8 witness: the fetch of a polling coordinator timed out in the loop over
\* the babies, after the first baby's record was built, and the snapshot is
\* still there.
C8_Witness ==
    /\ last.outcome = "TimeoutError"
    /\ last.caller = "refresh"
    /\ last.cycle_thumb["baby-1"] = 1
    /\ NoneInFlight
    /\ data # <<>>
    /\ DOMAIN data[1].babies = {"baby-1", "baby-2"}

\* C9 as stated: at most one invocation of _async_update_data is suspended
\* at any time, whoever calls it.
C9_Original == Cardinality({ t \in Tasks : InFlight(t) }) <= 1

\* C10 as stated, for the coordinator of src/__init__.py: an invocation in
\* which no call failed with an authorization failure has not called
\* refresh_session, has called get_babies once, and does not end with
\* ConfigEntryAuthFailed.
C10_Original ==
    (\A j \in 1..Len(simple.results) : simple.results[j] # "NanitUnauthorizedError")
        => /\ Count(simple.calls, "refresh_session") = 0
           /\ Count(simple.calls, "get_babies") <= 1
           /\ simple.outcome # "ConfigEntryAuthFailed"

\* C11: when refresh_session returns, the entry's data hold the access token
\* and the refresh token it returned, both, and every other key as before;
\* and an invocation whose refresh_session returned leaves the entry with a
\* returned pair however its retry ends.
C11_RefreshPersistsBothTokens ==
    /\ [][\A t \in Tasks : \A tokens \in RefreshedTokens :
             RefreshSessionReturns(t, tokens) =>
                 /\ entry_data'.access_token = tokens.access_token
                 /\ entry_data'.refresh_token = tokens.refresh_token
                 /\ DOMAIN entry_data' = DOMAIN entry_data
                 /\ \A k \in DOMAIN entry_data \ {"access_token", "refresh_token"} :
                        entry_data'[k] = entry_data[k]]_vars
    /\ [](\A h \in Histories :
             (Len(h.results) >= 2 /\ h.results[2] = "ok") =>
                 [access_token |-> entry_data.access_token,
                  refresh_token |-> entry_data.refresh_token] \in RefreshedTokens)

\* C11 witness: the retry after a token refresh failed, and the entry holds
\* the new pair beside its email.
C11_Witness ==
    /\ last.results = <<"NanitUnauthorizedError", "ok", "NanitAPIError">>
    /\ entry_data = [email |-> "ada@example.org",
                     access_token |-> "at1", refresh_token |-> "rt1"]

\* C12: the client's tokens and the entry's data change only in the step in
\* which refresh_session returns: no other step of a refresh cycle (a cycle
\* without an authorization failure, a failing refresh_session, any error)
\* changes them, and neither does the camera's update callback, its image
\* request or its stream-URL request.
C12_CredentialsChangeOnlyByRefresh ==
    /\ [][(client' # client \/ entry_data' # entry_data) =>
             \E t \in Tasks : \E tokens \in RefreshedTokens :
                 RefreshSessionReturns(t, tokens)]_vars
    /\ [][cameras' # cameras => UNCHANGED <<client, entry_data>>]_vars
    /\ [](client = [access_token |-> entry_data.access_token,
                    refresh_token |-> entry_data.refresh_token])

\* C12 witness: the camera has fetched and served an image, a later cycle got
\* a 401 and its refresh_session failed, and the tokens are the first ones.
C12_Witness ==
    /\ last.results = <<"NanitUnauthorizedError", "NanitUnauthorizedError">>
    /\ cameras # <<>>
    /\ \E uid \in DOMAIN cameras[1] :
           /\ cameras[1][uid].served.kind = "image"
           /\ cameras[1][uid].cached_thumbnail_url = "url-b"
    /\ client = InitialTokens
    /\ entry_data.access_token = InitialTokens.access_token
    /\ entry_data.refresh_token = InitialTokens.refresh_token

\* ---------------------------------------------------------------- C13

\* The values the session's credentials can have.
CredentialValues ==
    {InitialTokens.access_token, InitialTokens.refresh_token}
        \cup UNION { {tokens.access_token, tokens.refresh_token} :
                        tokens \in RefreshedTokens }

\* C13, as stated: no log record of a refresh cycle, on any of its paths, is
\* formatted with the value of the access token or of the refresh token.
\* The code does not have this property: _update_babies logs both tokens of
\* the client before its first request, and _async_update_data logs the pair
\* that refresh_session returned.
C13_Original ==
    /\ \A t \in Tasks : task[t].log \cap CredentialValues = {}
    /\ last.log \cap CredentialValues = {}

\* ---------------------------------------------------------------- C14

\* The flow fl has had a password form submitted last, and the service has
\* answer for the login it asks for.
PasswordSubmitted(fl, answers) ==
    /\ fl.user_input # <<>>
    /\ "password" \in DOMAIN fl.user_input[1]
    /\ fl.answer[1] \in answers

\* The flow fl has had an MFA code submitted last.
CodeSubmitted(fl, answers) ==
    /\ fl.user_input # <<>>
    /\ "code" \in DOMAIN fl.user_input[1]
    /\ fl.answer[1] \in answers

\* C14, as stated: the login flow goes Unauthenticated -> MfaPending ->
\* Authenticated. Credentials for which initiate_login returns an MFA token
\* bring the flow to the MFA step; the MFA step is on screen only after
\* initiate_login returned the token the flow holds; an entry is created only
\* after initiate_login and then complete_login succeeded, for the entered
\* email, password and code and that token.
\* The code does not have this property: async_step_user never leaves the
\* password step, it raises TypeError on every submission.
C14_Original ==
    LET fl == flow.user
    IN  /\ PasswordSubmitted(fl, {"mfa-1"}) =>
               /\ fl.result = "form"
               /\ fl.step_id = "mfa"
        /\ fl.step_id = "mfa" =>
               /\ fl.data # <<>>
               /\ \E i \in 1..Len(fl.calls) :
                      /\ fl.calls[i].name = "initiate_login"
                      /\ fl.calls[i].returned = fl.data[1].token
                      /\ fl.calls[i].email = fl.data[1].email
                      /\ fl.calls[i].password = fl.data[1].password
        /\ fl.result = "create_entry" =>
               \E i, j \in 1..Len(fl.calls) :
                   /\ i < j
                   /\ fl.calls[i].name = "initiate_login"
                   /\ fl.calls[i].returned = "mfa-1"
                   /\ fl.calls[j].name = "complete_login"
                   /\ fl.calls[j].returned = "tokens"
                   /\ fl.calls[j].mfa_token = fl.calls[i].returned
                   /\ fl.calls[j].mfa_code = fl.user_input[1].code
                   /\ fl.calls[j].email = fl.calls[i].email
                   /\ fl.calls[j].password = fl.calls[i].password

\* ---------------------------------------------------------------- C15

\* C15, as stated: when initiate_login fails, the password step that asked
\* for it (user or reauth_confirm) is on screen again with the error
\* invalid_auth; when complete_login fails, the MFA step is on screen again
\* with invalid_auth and no entry has been created or updated.
\* The code does not have this property: the password steps raise TypeError
\* and show no form, whatever the service has to say.
C15_Original ==
    \A source \in FlowSources :
        LET fl == flow[source]
            password_step == IF source = "user" THEN "user" ELSE "reauth_confirm"
        IN  /\ PasswordSubmitted(fl, {"NanitAPIError"}) =>
                   /\ fl.result = "form"
                   /\ fl.step_id = password_step
                   /\ Get(fl.errors, "base", None) = "invalid_auth"
            /\ CodeSubmitted(fl, {"NanitAPIError"}) =>
                   /\ fl.result = "form"
                   /\ fl.step_id \in {"mfa", "reauth_mfa"}
                   /\ Get(fl.errors, "base", None) = "invalid_auth"
                   /\ fl.entry = <<>>

\* ---------------------------------------------------------------- C20

\* C20, as stated: a reauth flow whose password the service accepts shows
\* an MFA form that async_step_reauth_mfa handles; when the code is accepted
\* too, the flow ends by updating the entry it was started for with the
\* email and the new tokens and reloading it; it never ends by creating an
\* entry.
\* The code does not have this property: async_step_reauth_confirm raises
\* TypeError on every submission, so that the flow never passes the password
\* step; the form it would show next has step_id "mfa", whose handler is
\* async_step_mfa, which ends with async_create_entry.
C20_Original ==
    LET fl == flow.reauth
    IN  /\ PasswordSubmitted(fl, {"mfa-1"}) =>
               /\ fl.result = "form"
               /\ fl.step_id = "reauth_mfa"
        /\ CodeSubmitted(fl, {"tokens"}) =>
               /\ fl.result = "abort"
               /\ fl.entry = <<[email |-> fl.data[1].email,
                                access_token |-> LoginTokens.access_token,
                                refresh_token |-> LoginTokens.refresh_token]>>
        /\ fl.result # "create_entry"

\* ---------------------------------------------------------------- C16

\* C16, as stated: every device record of the snapshot carries the
\* connection state, the last-seen timestamp and the latest event's key and
\* time, so that the sensors can be set up from it without reading a field
\* that is not there.
\* The code does not have this property: ConnectionStatus has the single
\* field connected, and NanitLastSeenSensor reads connection_status.last_seen.
C16_Original ==
    data # <<>> =>
        /\ \A uid \in DOMAIN data[1].babies :
               LET baby_meta == data[1].babies[uid]
               IN  /\ {"connected", "last_seen"} \subseteq DOMAIN baby_meta.connection_status
                   /\ {"key", "time"} \subseteq DOMAIN baby_meta.latest_event
        /\ SensorSetupEntry(data[1]).raised = None

\* ---------------------------------------------------------------- C17

\* C17, as stated: whichever request of the first fetch of a cycle answers
\* with an authorization failure (get_babies, get_latest_event,
\* get_connection_status or get_stats_latest), the cycle awaits
\* refresh_session next; none of them is absorbed.
\* The code does not have this property where NanitUnauthorizedError is a
\* NanitAPIError: the except clause around get_stats_latest takes it, and the
\* cycle goes on without a thumbnail and without a token refresh.
C17_Original ==
    [][\A t \in Tasks :
          (/\ task[t].run = 1
           /\ \/ FetchCallRaises(t, "NanitUnauthorizedError")
              \/ \E sub \in UnauthorizedIsAPIError :
                     GetStatsLatestRaises(t, "NanitUnauthorizedError", sub))
          => /\ task'[t].pc = "refresh_session"
             /\ task'[t].calls = Append(task[t].calls, "refresh_session")]_vars

\* ---------------------------------------------------------------- C18

\* The snapshots in the state: coordinator.data and what the invocation that
\* ended last returned.
Snapshots == { data[i] : i \in 1..Len(data) } \cup { last.returned[i] : i \in 1..Len(last.returned) }

\* C18: every snapshot is a mapping from device ids to records. Each key is
\* the baby_uid of its record, and the id of that record's device; the keys
\* of a returned snapshot are exactly the uids of the device list its fetch
\* got from get_babies, and so are the keys of coordinator.data when it is
\* replaced.
C18_SnapshotKeyedByDeviceId ==
    /\ [](\A d \in Snapshots : \A key \in DOMAIN d.babies :
              /\ d.babies[key].baby_uid = key
              /\ d.babies[key].device_info.identifiers = key)
    /\ [](last.outcome = "ok" => DOMAIN last.returned[1].babies = last.listed)
    /\ [][(data' # data /\ data' # <<>>) =>
              DOMAIN data'[1].babies = last'.listed]_vars

\* C18 witness: a cycle that had to retry stored a snapshot of two devices;
\* baby-1 was in the snapshot before with the same event, baby-2 is new or
\* has a new event.
C18_Witness ==
    /\ last.results = <<"NanitUnauthorizedError", "ok", "ok">>
    /\ last.caller = "refresh"
    /\ last.listed = {"baby-1", "baby-2"}
    /\ last.changed = {"baby-2"}
    /\ data # <<>>
    /\ DOMAIN data[1].babies = {"baby-1", "baby-2"}
    /\ data[1].babies["baby-2"].baby_uid = "baby-2"

\* ---------------------------------------------------------------- C19

\* What the call an invocation is suspended on at pc can end with, besides
\* its answer: TimeoutError is among them for the calls awaited inside the
\* `async with async_timeout.timeout(30)` block of _update_babies.
Raisable(pc) ==
    IF pc = "refresh_session" THEN FullApi.refresh_errors ELSE FullApi.fetch_errors

\* C19, as stated: every call a cycle is suspended on is awaited inside a
\* timeout scope, so that a call that never answers ends with TimeoutError.
\* The code does not have this property: the scope is opened in
\* _update_babies, and refresh_session is awaited in _async_update_data,
\* between the two calls of _update_babies.
C19_Original ==
    \A t \in Tasks : InFlight(t) => "TimeoutError" \in Raisable(task[t].pc)

\* ---------------------------------------------------------------- C21

\* The camera entities, as a set.
CameraEntities ==
    IF cameras = <<>> THEN {} ELSE { cameras[1][uid] : uid \in DOMAIN cameras[1] }

\* C21, as stated: whenever a camera holds a cached image, it is the image
\* fetched from the URL the camera holds as _cached_thumbnail_url.
\* The code does not have this property: async_camera_image stores what
\* get_thumbnail returns without looking at _cached_thumbnail_url again, and
\* _handle_coordinator_update can have replaced the URL while it waited.
C21_Original ==
    \A c \in CameraEntities :
        c.cached_image # <<>> => c.cached_image[1] = c.cached_thumbnail_url

\* ---------------------------------------------------------------- C22

\* The record of baby_uid in baby_metas has no thumbnail and the event time
\* of latest_event.
StoredWithoutThumbnail(baby_metas, baby_uid, latest_event) ==
    /\ baby_uid \in DOMAIN baby_metas
    /\ baby_metas[baby_uid].thumbnail_url = None
    /\ baby_metas[baby_uid].latest_event.time = CurrentEventTime(latest_event)

RefreshReturned ==
    /\ \E t \in Tasks : InFlight(t) /\ ~InFlight(t)'
    /\ last'.outcome = "ok"
    /\ data' = last'.returned

\* C23: when the host calls _handle_coordinator_update of a camera, the
\* camera drops its cached image and takes the snapshot's thumbnail URL if
\* its baby is in the snapshot with a thumbnail URL other than the cached
\* one; if the URL is the cached one, or the baby is not in the snapshot, the
\* cached image and the cached URL stay as they are. An image request that
\* is suspended stays suspended, with the URL it asked for.
C23_CacheClearedIffUrlDiffers ==
    [][(RefreshReturned /\ cameras # <<>>) =>
          /\ cameras' # <<>>
          /\ DOMAIN cameras'[1] = DOMAIN cameras[1]
          /\ \A uid \in DOMAIN cameras[1] :
                 LET c == cameras[1][uid]
                     updated == cameras'[1][uid]
                     present == uid \in DOMAIN data'[1].babies
                     differs == /\ present
                                /\ data'[1].babies[uid].thumbnail_url # c.cached_thumbnail_url
                 IN  /\ differs =>
                            /\ updated.cached_image = <<>>
                            /\ updated.cached_thumbnail_url = data'[1].babies[uid].thumbnail_url
                     /\ ~differs =>
                            /\ updated.cached_image = c.cached_image
                            /\ updated.cached_thumbnail_url = c.cached_thumbnail_url
                     /\ updated.pc = c.pc
                     /\ updated.url = c.url]_vars

\* C23 witness: an image request for url-a is suspended, and an update has
\* made url-b the camera's URL meanwhile, with no cached image.
C23_Witness ==
    \E c \in CameraEntities :
        /\ c.pc[1] = "get_thumbnail"
        /\ c.url[1] = "url-a"
        /\ c.cached_thumbnail_url = "url-b"
        /\ c.cached_image = <<>>
        /\ last.outcome = "ok"
        /\ data[1].babies[c.baby_uid].thumbnail_url = "url-b"

\* ---------------------------------------------------------------- C24

\* C24, as stated: no successful fetch brings an image that the camera has
\* cached already, a call that finds a cached image or no URL makes no
\* request, and a failed fetch returns None and leaves the cache empty.
\* The code does not have the first and the last property: two calls that
\* find the cache empty before either has its answer both fetch the same URL.
C24_Original ==
    [][\A uid \in BabyUids : \A r \in Requests :
          LET c == cameras[1][uid]
              after == cameras'[1][uid]
          IN  /\ GetThumbnailReturns(uid, r) => c.cached_image # <<c.url[r]>>
              /\ GetThumbnailRaises(uid, r) =>
                     /\ after.served = Served("none", None)
                     /\ after.cached_image = <<>>
              /\ (AsyncCameraImage(uid, r) /\ c.cached_image # <<>>) =>
                     /\ after.pc = c.pc
                     /\ after.served = Served("image", c.cached_image[1])
              /\ (AsyncCameraImage(uid, r) /\ c.cached_thumbnail_url = None
                                           /\ c.cached_image = <<>>) =>
                     /\ after.pc = c.pc
                     /\ after.served = Served("none", None)]_vars

\* C24, amended: a call of async_camera_image that finds a cached image
\* returns it, and one that finds no image and no URL returns None, both
\* without a request; any other call requests the camera's URL. A failed
\* request returns None and does not touch the cache; a successful one caches
\* and returns the bytes. A call that no other call of the camera overlaps
\* finds the cache empty when its request ends, so that it never fetches
\* what is cached; calls that overlap can both fetch the same URL.
C24_FetchOnlyOnEmptyCache ==
    /\ [][\A uid \in BabyUids : \A r \in Requests :
             LET c == cameras[1][uid]
                 after == cameras'[1][uid]
             IN  /\ AsyncCameraImage(uid, r) =>
                        /\ after.cached_image = c.cached_image
                        /\ after.cached_thumbnail_url = c.cached_thumbnail_url
                        /\ IF c.cached_image # <<>>
                           THEN /\ after.pc = c.pc
                                /\ after.served = Served("image", c.cached_image[1])
                           ELSE IF c.cached_thumbnail_url = None
                           THEN /\ after.pc = c.pc
                                /\ after.served = Served("none", None)
                           ELSE /\ after.pc[r] = "get_thumbnail"
                                /\ after.url[r] = c.cached_thumbnail_url
                                /\ after.served = c.served
                 /\ GetThumbnailRaises(uid, r) =>
                        /\ after.pc[r] = "idle"
                        /\ after.served = Served("none", None)
                        /\ after.cached_image = c.cached_image
                        /\ after.cached_thumbnail_url = c.cached_thumbnail_url
                 /\ GetThumbnailReturns(uid, r) =>
                        /\ after.pc[r] = "idle"
                        /\ after.served = Served("image", c.url[r])
                        /\ after.cached_image = <<c.url[r]>>
                        /\ after.cached_thumbnail_url = c.cached_thumbnail_url]_vars
    /\ [](\A c \in CameraEntities : \A r \in Requests :
              (c.pc[r] = "get_thumbnail" /\ c.alone[r]) => c.cached_image = <<>>)

\* C24 witness: of two calls that overlap, one has fetched and cached the
\* image of url-a, and the other is still waiting for the same URL.
C24_Witness ==
    \E c \in CameraEntities : \E r \in Requests :
        /\ c.pc[r] = "get_thumbnail"
        /\ c.url[r] = "url-a"
        /\ ~c.alone[r]
        /\ c.cached_image = <<"url-a">>
        /\ c.cached_thumbnail_url = "url-a"
        /\ c.served = Served("image", "url-a")

\* ---------------------------------------------------------------- C25

C26_NewDeviceIsFetched ==
    [][\A t \in Tasks : \A response \in CameraResponses(t) :
          (/\ GetConnectionStatusReturns(t, response)
           /\ PreviousBaby(data, CurrentBaby(task[t]).uid) = <<>>) =>
              /\ task'[t].pc = "get_stats_latest"
              /\ task'[t].i = task[t].i
              /\ task'[t].cycle_thumb[CurrentBaby(task[t]).uid] =
                     task[t].cycle_thumb[CurrentBaby(task[t]).uid] + 1
              /\ CurrentBaby(task[t]).uid \notin DOMAIN task'[t].baby_metas]_vars

\* C26 witness: stats/latest is requested for baby-2, whose latest event has
\* no time, in a cycle that started with a snapshot holding baby-1 only;
\* the snapshot came from a first cycle that fetched for baby-1.
C26_Witness ==
    \E t \in Tasks :
        /\ task[t].pc = "get_stats_latest"
        /\ CurrentBaby(task[t]).uid = "baby-2"
        /\ "time" \notin DOMAIN task[t].latest_event[1]
        /\ CurrentEventTime(task[t].latest_event[1]) = 0
        /\ task[t].cycle_thumb["baby-2"] = 1
        /\ data # <<>>
        /\ DOMAIN data[1].babies = {"baby-1"}
        /\ data[1].babies["baby-1"].thumbnail_url # None
        /\ data = task[t].data_at_start

====
